---- MODULE Spec2Model ----
(***************************************************************************)
(* Model of the request admission queue of the GraphCast backend           *)
(* (src/ai-backend/graphcast/request_queue.py, class RequestQueueManager)  *)
(* and of its forecast cache (src/ai-backend/graphcast/cache_manager.py,   *)
(* class ForecastCacheManager).                                            *)
(*                                                                         *)
(* One action is one run of a coroutine between two suspension points of   *)
(* the asyncio event loop: the loop is single-threaded, so the code        *)
(* between two awaits that suspend is atomic.                              *)
(*                                                                         *)
(* Requests are numbered 1, 2, ... in the order of the enqueue_request     *)
(* calls.  time.time() is counted in whole seconds and the manager is      *)
(* constructed with timeout_seconds = 1.                                   *)
(***************************************************************************)
EXTENDS Integers, Sequences, FiniteSets, TLC

\* ------------------------------------------------------------------ bounds
\* number of enqueue_request calls in a behaviour
MaxRequests == 3
\* last value of the clock
MaxTime == 1
\* largest max_concurrent / max_queue_size a manager is constructed with
MaxConcurrent == 2
MaxQueueSize == 3
\* the priorities requests are submitted with are HIGH .. MaxPriority
MaxPriority == 2
\* the cache: clock ticks in a calendar day, and the last calendar day
DayLen == 2
MaxDay == 2
\* largest ttl_seconds a cache manager is constructed with, in ticks
MaxTtl == 4
\* number of set_forecast calls in a behaviour, and of threads that make them
MaxCalls == 2
MaxThreads == 2
\* the HTTP requests for a forecast
MaxFlows == 2

\* ------------------------------------------------------- program constants
HIGH == 1
NORMAL == 2
LOW == 3
RequestPriority == {HIGH, NORMAL, LOW}

\* self.timeout_seconds
timeout_seconds == 1

\* the classes of the errors a task raises, as far as enqueue_request and
\* _execute_request tell them apart: asyncio.TimeoutError, which
\* enqueue_request has a handler for, and every other Exception
\* (asyncio.QueueFull raised by a task is one of these: no handler names it)
ErrorClasses == {"Exception", "TimeoutError"}

\* deque(maxlen=10) of recent_execution_times
maxlen == 10

\* the estimate of get_estimated_wait_time without history, in ms
default_execution_time == 5000

Requests == 1..MaxRequests

VARIABLES
    max_concurrent,      \* self.max_concurrent
    max_queue_size,      \* self.max_queue_size
    queue,               \* self.queue: the heap list of the PriorityQueue
    sem_value,           \* self.semaphore: free slots
    sem_waiters,         \* _execute_request tasks waiting for the semaphore, in FIFO order
    active_requests,     \* self.active_requests
    running,             \* self._running
    worker_task,         \* self._worker_task: "none", or the state of the task created last
    worker_loops,        \* the number of _process_queue tasks that are alive
    total_requests,      \* self.total_requests
    completed_requests,  \* self.completed_requests
    failed_requests,     \* self.failed_requests
    timeout_requests,    \* self.timeout_requests
    rejected_requests,   \* self.rejected_requests
    request,             \* the QueuedRequest objects: priority and queued_at, per request
    future,              \* QueuedRequest.future, per request
    task_state,          \* where the request's task is
    error_class,         \* the class of the exception set on the request's future
    start_time,          \* start_time of _execute_request, per running request
    wait_time_ms,        \* wait_time_ms of _execute_request, per request whose task is alive
    total_wait_time_ms,        \* self.total_wait_time_ms
    total_execution_time_ms,   \* self.total_execution_time_ms
    recent_execution_times,    \* self.recent_execution_times
    caller,              \* what the enqueue_request call of the request has done
    now,                 \* time.time()
    start_order,         \* history: the requests in the order their tasks started
    batch,               \* history: no request was accepted after a request left the buffer
    writes,              \* history: the calls of set_result and set_exception, per request
    last_call,           \* history: the last of the start() and stop() calls
    call_raised          \* history: a start() or stop() call raised

queue_vars == <<max_concurrent, max_queue_size, queue, sem_value, sem_waiters,
          active_requests, running, total_requests, completed_requests,
          failed_requests, timeout_requests, rejected_requests, request,
          future, task_state, caller, now, start_order, batch,
          writes, worker_task, worker_loops, error_class, last_call,
          call_raised, start_time, wait_time_ms,
          total_wait_time_ms,
          total_execution_time_ms, recent_execution_times>>

config == <<max_concurrent, max_queue_size>>
lifecycle == <<worker_task, worker_loops, last_call, call_raised>>
metrics == <<total_wait_time_ms, total_execution_time_ms,
             recent_execution_times>>
counters == <<total_requests, completed_requests, failed_requests,
              timeout_requests, rejected_requests>>

\* ------------------------------------------------------- the result cache
\* ForecastCacheManager of src/ai-backend/graphcast/cache_manager.py.  The
\* methods that read or change files do so under self._lock, so a method is
\* one action, except set_forecast, which computes the key and the path of
\* the file before it takes the lock (get_cache_stats takes no lock and is
\* read here at one instant).  The clock of the cache counts ticks of a day
\* that is DayLen ticks long; coordinates are given in thousandths of a
\* degree.
VARIABLES
    ttl_seconds,         \* self.ttl_seconds, in ticks
    datetime_now,        \* datetime.now(), in ticks
    files,               \* the .json files under self.cache_dir, per day directory and key
    pending,             \* set_forecast calls between _get_cache_path and the lock, per thread
    calls,               \* history: the number of set_forecast calls made
    latest,              \* history: the forecast of the last successful set_forecast, per key,
                         \* while no invalidation or sweep has removed a file of the key since
    written_at,          \* history: when that forecast was written, per key
    cache_raised,        \* history: a call of the cache has raised to its caller
    listing,             \* the files a get_cache_stats call in progress has listed
    invalidating         \* the invalidate_forecast calls of the threads, with history

cache_vars == <<ttl_seconds, datetime_now, files, pending, calls,
                latest, written_at, cache_raised, listing, invalidating>>

\* ------------------------------------------------------- the request flow
\* the endpoint graphcast_forecast of src/ai-backend/main.py, which asks the
\* cache, hands the inference to the queue manager on a miss and stores what
\* comes back
VARIABLES
    flow                 \* the calls of graphcast_forecast: where each is, and its locals

vars == <<queue_vars, cache_vars, flow>>

\* ------------------------------------------------------------ futures
\* asyncio.Future: pending, or done with a result, an exception or cancelled
PendingFuture == [state |-> "pending", value |-> 0]
CancelledFuture == [state |-> "cancelled", value |-> 0]
NoFuture == [state |-> "none", value |-> 0]

FutureDone(f) == f.state \in {"result", "exception", "cancelled"}

\* what the task of request r returns, and what it raises when it fails
TaskValue(r) == r
TaskError(r) == MaxRequests + 1 + r

\* ------------------------------------------------------------ the heap
\* The heap list holds references to QueuedRequest objects: request ids, looked
\* up in the object table req.

\* a QueuedRequest (task, args and kwargs are opaque; the future is kept apart)
QueuedRequest(p, t) == [priority |-> p, queued_at |-> t]
NoRequest == [priority |-> 0, queued_at |-> 0]

\* QueuedRequest.__lt__
Lt(self, other) ==
    IF self.priority # other.priority
    THEN self.priority < other.priority
    ELSE self.queued_at < other.queued_at

\* heapq._siftdown, positions counted from 1
RECURSIVE SiftDown(_, _, _, _, _)
SiftDown(req, h, startpos, pos, newitem) ==
    IF pos > startpos /\ Lt(req[newitem], req[h[pos \div 2]])
    THEN SiftDown(req, [h EXCEPT ![pos] = h[pos \div 2]], startpos, pos \div 2, newitem)
    ELSE [h EXCEPT ![pos] = newitem]

\* heapq._siftup, positions counted from 1
RECURSIVE SiftUp(_, _, _, _)
SiftUp(req, h, pos, newitem) ==
    LET childpos == 2 * pos
        rightpos == childpos + 1
        c == IF rightpos <= Len(h) /\ ~Lt(req[h[childpos]], req[h[rightpos]])
             THEN rightpos ELSE childpos
    IN  IF childpos <= Len(h)
        THEN SiftUp(req, [h EXCEPT ![pos] = h[c]], c, newitem)
        ELSE SiftDown(req, [h EXCEPT ![pos] = newitem], 1, pos, newitem)

\* heapq.heappush, as PriorityQueue._put calls it
HeapPush(req, h, item) == SiftDown(req, Append(h, item), 1, Len(h) + 1, item)

\* heapq.heappop, as PriorityQueue._get calls it: the item returned ...
HeapTop(h) == h[1]

\* a get that leaves the request in the heap
HeapPop_Peek(req, h) == h

\* ... and the heap that is left
HeapPop(req, h) ==
    LET lastelt == h[Len(h)]
        rest == SubSeq(h, 1, Len(h) - 1)
    IN  IF rest = <<>> THEN rest ELSE SiftUp(req, rest, 1, lastelt)

\* ------------------------------------------------------------ helpers
\* a capacity test that is off by one
QueueFull_OffByOne == Len(queue) > max_queue_size

\* self.queue.full(): maxsize > 0 and qsize() >= maxsize
QueueFull == Len(queue) >= max_queue_size

\* a semaphore that hands out a slot whenever it is asked
SemaphoreFree_Unlimited == TRUE

\* asyncio.Semaphore.acquire returns without waiting iff the value is positive
SemaphoreFree == sem_value > 0

\* a future written without looking at its state
FutureWritable_Unchecked(f) == TRUE

\* `not queued_request.future.done()`
FutureWritable(f) == ~FutureDone(f)

\* a slot that stays taken when the caller of the request has gone
SemaphoreRelease_UnlessCancelled(f) ==
    IF f.state = "cancelled" THEN sem_value ELSE sem_value + 1

\* leaving `async with self.semaphore` for a request whose future is f
SemaphoreRelease(f) == sem_value + 1

\* a result that is not passed on to the future
SetResult_Dropped(f, v) ==
    IF f.state = "pending" THEN [state |-> "result", value |-> 0] ELSE f

\* future.set_result(result); on a future that is done it raises
\* InvalidStateError and leaves the future as it is
SetResult(f, v) ==
    IF f.state = "pending" THEN [state |-> "result", value |-> v] ELSE f

\* an exception that is replaced by a generic one on its way to the future
SetException_Generic(f, e) ==
    IF f.state = "pending" THEN [state |-> "exception", value |-> 0] ELSE f

\* future.set_exception(e), likewise
SetException(f, e) ==
    IF f.state = "pending" THEN [state |-> "exception", value |-> e] ELSE f

\* execution_time_ms of _execute_request when the task of r ends now
ExecutionTimeMs(r) == (now - start_time[r]) * 1000

\* deque.append on a deque(maxlen=10): the oldest entry leaves a full deque
DequeAppend(d, x) ==
    IF Len(d) < maxlen THEN Append(d, x) ELSE Append(Tail(d), x)

\* sum(self.recent_execution_times)
RECURSIVE SeqSum(_)
SeqSum(d) == IF d = <<>> THEN 0 ELSE Head(d) + SeqSum(Tail(d))

\* avg_execution_time of get_estimated_wait_time, in ms; Python computes with
\* floats, here the value is the fraction num / den
avg_execution_time ==
    IF recent_execution_times # <<>>
    THEN [num |-> SeqSum(recent_execution_times),
          den |-> Len(recent_execution_times)]
    ELSE [num |-> default_execution_time, den |-> 1]

\* an estimate that leaves the concurrent slots out
get_estimated_wait_time_Serial ==
    IF Len(queue) = 0
    THEN [num |-> 0, den |-> 1]
    ELSE [num |-> Len(queue) * avg_execution_time.num,
          den |-> avg_execution_time.den]

\* the value get_estimated_wait_time() returns in the current state, in ms
get_estimated_wait_time ==
    IF Len(queue) = 0
    THEN [num |-> 0, den |-> 1]
    ELSE [num |-> Len(queue) * avg_execution_time.num,
          den |-> max_concurrent * avg_execution_time.den]

\* the deadline of wait_for(future, timeout=self.timeout_seconds) has passed
DeadlinePassed(r) == now >= request[r].queued_at + timeout_seconds

\* ------------------------------------------------------------ Init
QueueInit ==
    /\ max_concurrent \in 1..MaxConcurrent
    /\ max_queue_size \in 1..MaxQueueSize
    /\ queue = <<>>
    /\ sem_value = max_concurrent
    /\ sem_waiters = <<>>
    /\ active_requests = 0
    /\ running = FALSE
    /\ total_requests = 0
    /\ completed_requests = 0
    /\ failed_requests = 0
    /\ timeout_requests = 0
    /\ rejected_requests = 0
    /\ request = [r \in Requests |-> NoRequest]
    /\ future = [r \in Requests |-> NoFuture]
    /\ task_state = [r \in Requests |-> "none"]
    /\ caller = [r \in Requests |-> [state |-> "none", value |-> 0]]
    /\ now = 0
    /\ start_order = <<>>
    /\ batch = TRUE
    /\ writes = [r \in Requests |-> 0]
    /\ worker_task = "none"
    /\ worker_loops = 0
    /\ error_class = [r \in Requests |-> "none"]
    /\ last_call = "none"
    /\ call_raised = FALSE
    /\ start_time = [r \in Requests |-> 0]
    /\ wait_time_ms = [r \in Requests |-> 0]
    /\ total_wait_time_ms = 0
    /\ total_execution_time_ms = 0
    /\ recent_execution_times = <<>>

\* ------------------------------------------------------------ actions
\* a task the worker created enters the semaphore as soon as the event loop
\* runs it, if a slot is free
ReadyToStart == sem_waiters # <<>> /\ SemaphoreFree

\* time passes: a tick of time.time().  The event loop runs a task that can
\* enter the semaphore before the clock moves
Tick ==
    /\ now < MaxTime
    /\ ~ReadyToStart
    /\ now' = now + 1
    /\ UNCHANGED <<config, queue, sem_value, sem_waiters, active_requests,
                   running, counters, request, future,
                   task_state, caller, start_order, batch, writes,
                   lifecycle, error_class,
                   start_time, wait_time_ms, metrics, cache_vars, flow>>

\* a start() without the check of self._running
StartReturnsEarly_Never == FALSE

\* `if self._running: return` of start()
StartReturnsEarly == running

\* `if self._worker_task:` of stop()
HasWorkerTask == worker_task # "none"

\* start(): unless the manager runs already, a worker task is created for
\* _process_queue
Start ==
    /\ IF StartReturnsEarly
       THEN UNCHANGED <<running, worker_task, worker_loops>>
       ELSE /\ running' = TRUE
            /\ worker_task' = "live"
            /\ worker_loops' = worker_loops + 1
    /\ last_call' = "start"
    /\ UNCHANGED <<config, queue, sem_value, sem_waiters, active_requests,
                   counters, request, future, task_state,
                   caller, now, start_order, batch, writes, error_class,
                   call_raised,
                   start_time, wait_time_ms, metrics, cache_vars, flow>>

\* stop(), from the call to its return: the worker task is cancelled and
\* awaited; the tasks it created are not.  cancel() ends a live task and does
\* nothing to one that is done, `await` of the cancelled task raises
\* CancelledError, which stop() catches; cancel() on None would raise
\* AttributeError.  While stop() awaits a live worker the event loop runs the
\* tasks that are ready, so by its return no created task is left that could
\* enter the semaphore
Stop ==
    /\ worker_task = "live" => ~ReadyToStart
    /\ running' = FALSE
    /\ IF HasWorkerTask
       THEN /\ worker_task' = IF worker_task = "none" THEN "none" ELSE "cancelled"
            /\ worker_loops' = IF worker_task = "live" THEN worker_loops - 1
                                                       ELSE worker_loops
            /\ call_raised' = (call_raised \/ worker_task = "none")
       ELSE UNCHANGED <<worker_task, worker_loops, call_raised>>
    /\ last_call' = "stop"
    /\ UNCHANGED <<config, queue, sem_value, sem_waiters, active_requests,
                   counters, request, future, task_state,
                   caller, now, start_order, batch, writes, error_class,
                   start_time, wait_time_ms, metrics, cache_vars, flow>>

\* the requests that enqueue_request was called for; the next call is that
\* of the next request
Submitted == {r \in Requests : caller[r].state # "none"}

\* enqueue_request(...) up to its first suspension: the call is rejected, or
\* the request is put into the queue and the caller waits for the future
enqueue_request(p) ==
    LET r == Cardinality(Submitted) + 1 IN
    /\ Cardinality(Submitted) < MaxRequests
    /\ total_requests' = total_requests + 1
    /\ IF QueueFull
       THEN /\ rejected_requests' = rejected_requests + 1
            /\ caller' = [caller EXCEPT ![r] = [state |-> "QueueFull", value |-> 0]]
            /\ UNCHANGED <<queue, request, future, task_state, batch>>
       ELSE /\ request' = [request EXCEPT ![r] = QueuedRequest(p, now)]
            /\ future' = [future EXCEPT ![r] = PendingFuture]
            /\ queue' = HeapPush(request', queue, r)
            /\ task_state' = [task_state EXCEPT ![r] = "queued"]
            /\ caller' = [caller EXCEPT ![r] = [state |-> "waiting", value |-> 0]]
            /\ batch' = (batch /\ \A s \in Requests : task_state[s] \in {"none", "queued"})
            /\ UNCHANGED rejected_requests
    /\ UNCHANGED <<config, sem_value, sem_waiters, active_requests, running,
                   completed_requests, failed_requests, timeout_requests,
                   now, start_order, writes,
                   lifecycle, error_class,
                   start_time, wait_time_ms, metrics>>

\* a call of enqueue_request from outside the endpoint
EnqueueRequest(p) ==
    /\ enqueue_request(p)
    /\ UNCHANGED <<cache_vars, flow>>

\* one iteration of the worker loop _process_queue: the least request leaves
\* the queue and a task is created that runs _execute_request for it; the new
\* task goes for the semaphore behind the tasks created before it
ProcessQueue ==
    /\ running
    /\ worker_loops > 0
    /\ queue # <<>>
    /\ queue' = HeapPop(request, queue)
    /\ sem_waiters' = Append(sem_waiters, HeapTop(queue))
    /\ task_state' = [task_state EXCEPT ![HeapTop(queue)] = "popped"]
    /\ wait_time_ms' = [wait_time_ms EXCEPT ![HeapTop(queue)] =
                               (now - request[HeapTop(queue)].queued_at) * 1000]
    /\ total_wait_time_ms' = total_wait_time_ms + wait_time_ms'[HeapTop(queue)]
    /\ UNCHANGED <<config, sem_value, active_requests, running, counters,
                   request, future, caller, now, start_order, batch,
                   writes, lifecycle, error_class,
                   start_time, total_execution_time_ms,
                   recent_execution_times, cache_vars, flow>>

\* _execute_request enters `async with self.semaphore` and calls the task
ExecuteStart ==
    /\ sem_waiters # <<>>
    /\ SemaphoreFree
    /\ sem_value' = sem_value - 1
    /\ sem_waiters' = Tail(sem_waiters)
    /\ active_requests' = active_requests + 1
    /\ task_state' = [task_state EXCEPT ![Head(sem_waiters)] = "running"]
    /\ start_order' = Append(start_order, Head(sem_waiters))
    /\ start_time' = [start_time EXCEPT ![Head(sem_waiters)] = now]
    /\ UNCHANGED wait_time_ms
    /\ UNCHANGED <<config, queue, running, counters, request, future, caller,
                   now, batch, writes,
                   lifecycle, error_class,
                   metrics, cache_vars, flow>>

\* the task of r returns: the try branch of _execute_request, then finally
\* and the exit of `async with`
TaskSucceed(r) ==
    /\ task_state[r] = "running"
    /\ total_execution_time_ms' = total_execution_time_ms + ExecutionTimeMs(r)
    /\ recent_execution_times' = DequeAppend(recent_execution_times, ExecutionTimeMs(r))
    /\ start_time' = [start_time EXCEPT ![r] = 0]
    /\ wait_time_ms' = [wait_time_ms EXCEPT ![r] = 0]
    /\ IF FutureWritable(future[r])
       THEN /\ future' = [future EXCEPT ![r] = SetResult(future[r], TaskValue(r))]
            /\ writes' = [writes EXCEPT ![r] = @ + 1]
       ELSE UNCHANGED <<future, writes>>
    /\ completed_requests' = completed_requests + 1
    /\ active_requests' = active_requests - 1
    /\ sem_value' = SemaphoreRelease(future[r])
    /\ task_state' = [task_state EXCEPT ![r] = "succeeded"]
    /\ UNCHANGED <<config, queue, sem_waiters, running, total_requests,
                   failed_requests, timeout_requests, rejected_requests,
                   request, caller, now, start_order, batch,
                   lifecycle, error_class,
                   total_wait_time_ms, cache_vars, flow>>

\* the task of r raises an error of class e: the except branch of
\* _execute_request, then finally and the exit of `async with`
TaskFail(r, e) ==
    /\ task_state[r] = "running"
    /\ start_time' = [start_time EXCEPT ![r] = 0]
    /\ wait_time_ms' = [wait_time_ms EXCEPT ![r] = 0]
    /\ IF FutureWritable(future[r])
       THEN /\ future' = [future EXCEPT ![r] = SetException(future[r], TaskError(r))]
            /\ error_class' = [error_class EXCEPT ![r] = e]
            /\ writes' = [writes EXCEPT ![r] = @ + 1]
       ELSE UNCHANGED <<future, error_class, writes>>
    /\ failed_requests' = failed_requests + 1
    /\ active_requests' = active_requests - 1
    /\ sem_value' = SemaphoreRelease(future[r])
    /\ task_state' = [task_state EXCEPT ![r] = "failed"]
    /\ UNCHANGED <<config, queue, sem_waiters, running, total_requests,
                   completed_requests, timeout_requests, rejected_requests,
                   request, caller, now, start_order, batch, lifecycle,
                   metrics, cache_vars, flow>>

\* `except asyncio.TimeoutError` of enqueue_request catches what wait_for
\* raises: the exception of the future, when it is of that class
CaughtAsTimeout(r) ==
    future[r].state = "exception" /\ error_class[r] = "TimeoutError"

\* wait_for(future, ...) in enqueue_request ends with the future done: the
\* caller gets the result, or the exception of the future is raised in
\* enqueue_request and leaves it, through the handler if that catches it
wait_for_done(r) ==
    /\ caller[r].state = "waiting"
    /\ future[r].state \in {"result", "exception"}
    /\ timeout_requests' = IF CaughtAsTimeout(r) THEN timeout_requests + 1
                                                  ELSE timeout_requests
    /\ caller' = [caller EXCEPT ![r] =
                    [state |-> IF future[r].state = "result" THEN "returned" ELSE "raised",
                     value |-> future[r].value]]
    /\ UNCHANGED <<config, queue, sem_value, sem_waiters, active_requests,
                   running, total_requests, completed_requests,
                   failed_requests, rejected_requests, request, future,
                   task_state, now, start_order, batch, writes, lifecycle,
                   error_class,
                   start_time, wait_time_ms, metrics>>

\* enqueue_request gives its caller outside the endpoint the result or the
\* exception
CallerResume(r) ==
    /\ wait_for_done(r)
    /\ UNCHANGED <<cache_vars, flow>>

\* a call of get_estimated_wait_time(): it reads self.queue,
\* self.recent_execution_times and self.max_concurrent and assigns nothing
GetEstimatedWaitTime ==
    UNCHANGED vars

\* reset_metrics(): the counters and the sums go back to zero, whatever
\* requests are buffered or executing
ResetMetrics ==
    /\ total_requests' = 0
    /\ completed_requests' = 0
    /\ failed_requests' = 0
    /\ timeout_requests' = 0
    /\ rejected_requests' = 0
    /\ total_wait_time_ms' = 0
    /\ total_execution_time_ms' = 0
    /\ recent_execution_times' = <<>>
    /\ UNCHANGED <<config, queue, sem_value, sem_waiters, active_requests,
                   running, request, future, task_state, caller, now,
                   start_order, batch, writes, lifecycle, error_class,
                   start_time, wait_time_ms, cache_vars, flow>>

\* wait_for(future, ...) in enqueue_request times out: it cancels the future,
\* the timeout is counted and TimeoutError is raised to the caller
wait_for_timeout(r) ==
    /\ caller[r].state = "waiting"
    /\ future[r].state = "pending"
    /\ DeadlinePassed(r)
    /\ future' = [future EXCEPT ![r] = CancelledFuture]
    /\ timeout_requests' = timeout_requests + 1
    /\ caller' = [caller EXCEPT ![r] = [state |-> "TimeoutError", value |-> 0]]
    /\ UNCHANGED <<config, queue, sem_value, sem_waiters, active_requests,
                   running, total_requests, completed_requests,
                   failed_requests, rejected_requests, request, task_state,
                   now, start_order, batch, writes,
                   lifecycle, error_class,
                   start_time, wait_time_ms, metrics>>

\* a timeout handler that counts the timeout and does not re-raise it
CallerTimeout_NoRaise(r) ==
    /\ caller[r].state = "waiting"
    /\ future[r].state = "pending"
    /\ DeadlinePassed(r)
    /\ future' = [future EXCEPT ![r] = CancelledFuture]
    /\ timeout_requests' = timeout_requests + 1
    /\ caller' = [caller EXCEPT ![r] = [state |-> "returned", value |-> 0]]
    /\ UNCHANGED <<config, queue, sem_value, sem_waiters, active_requests,
                   running, total_requests, completed_requests,
                   failed_requests, rejected_requests, request, task_state,
                   now, start_order, batch, writes,
                   lifecycle, error_class,
                   start_time, wait_time_ms, metrics, cache_vars, flow>>

\* enqueue_request raises TimeoutError to its caller outside the endpoint
CallerTimeout(r) ==
    /\ wait_for_timeout(r)
    /\ UNCHANGED <<cache_vars, flow>>

Next ==
    \/ Tick
    \/ Start
    \/ Stop
    \/ \E p \in HIGH..MaxPriority : EnqueueRequest(p)
    \/ ProcessQueue
    \/ ExecuteStart
    \/ \E r \in Requests : TaskSucceed(r)
    \/ \E r \in Requests, e \in ErrorClasses : TaskFail(r, e)
    \/ \E r \in Requests : CallerResume(r)
    \/ \E r \in Requests : CallerTimeout(r)
    \/ GetEstimatedWaitTime


\* ------------------------------------------------------------ cache: data
\* the calendar day of a time: strftime("%Y-%m-%d")
Day(t) == t \div DayLen

Days == 0..MaxDay
Threads == 1..MaxThreads

\* CACHE_CONFIG["ttl_seconds"]: 86400 s, one day
default_ttl_seconds == DayLen

\* the latitudes and longitudes (in thousandths of a degree) and the
\* forecast_days calls are made with; the second horizon goes with one place
Latitudes == {-4, 4, 6}
Longitudes == {0}
Horizons == {7, 10}
Arguments ==
    {a \in Latitudes \X Longitudes \X Horizons : a[3] = 7 \/ a[1] = 6}

\* ForecastResult objects: the forecast proper, and metadata.era5_timestamp,
\* which is optional (<<>> is None, <<t>> the datetime t)
Forecasts == {[value |-> 1, era5_timestamp |-> <<>>],
              [value |-> 2, era5_timestamp |-> <<1>>]}
NoForecast == [value |-> 0, era5_timestamp |-> <<>>]

\* datetime.isoformat() and datetime.fromisoformat()
IsoFormat(dt) == <<"iso", dt>>
FromIsoFormat(s) == s[2]

\* ForecastResult.to_dict(): datetimes become ISO strings, None stays None;
\* extra_keys are the keys of the dictionary, at any level, that the
\* dataclasses have no field for: to_dict writes none
to_dict(forecast) ==
    [value |-> forecast.value,
     era5_timestamp |-> IF forecast.era5_timestamp # <<>>
                        THEN IsoFormat(forecast.era5_timestamp[1])
                        ELSE <<>>,
     extra_keys |-> {}]

\* ForecastResult.from_dict()
from_dict(data) ==
    [value |-> data.value,
     era5_timestamp |-> IF data.era5_timestamp # <<>>
                        THEN <<FromIsoFormat(data.era5_timestamp)>>
                        ELSE <<>>]

\* ForecastResult.from_dict() raises TypeError: cls(**data) of a dataclass
\* gets a key that is none of its fields
from_dict_raises(data) == data.extra_keys # {}

\* a file: json.dump wrote all of data, or the write broke off and json.load
\* fails on what is there
NoFile == [exists |-> FALSE, mtime |-> 0, parseable |-> FALSE,
           data |-> to_dict(NoForecast)]
WrittenFile(t, data) ==
    [exists |-> TRUE, mtime |-> t, parseable |-> TRUE, data |-> data]
TruncatedFile(t) ==
    [exists |-> TRUE, mtime |-> t, parseable |-> FALSE,
     data |-> to_dict(NoForecast)]

\* round(x, 2) of a coordinate of x thousandths: the sign and the hundredths;
\* a negative x that rounds to zero gives -0.0
Round2(x) ==
    [negative |-> x < 0,
     hundredths |-> ((IF x < 0 THEN -x ELSE x) + 5) \div 10]

\* f"{lat_rounded}": -0.0 is written "-0.0" and 0.0 is written "0.0"
FormatFloat(r) ==
    [sign |-> IF r.negative THEN "-" ELSE "", hundredths |-> r.hundredths]

\* a key that leaves forecast_days out
generate_cache_key_NoHorizon(lat, lon, forecast_days) ==
    <<FormatFloat(Round2(lat)), FormatFloat(Round2(lon)), 7>>

\* _generate_cache_key: the key string is made of the two formatted
\* coordinates and forecast_days (the md5 suffix is a function of these)
generate_cache_key(lat, lon, forecast_days) ==
    <<FormatFloat(Round2(lat)), FormatFloat(Round2(lon)), forecast_days>>

Keys == {generate_cache_key(a[1], a[2], a[3]) : a \in Arguments}

\* an _is_cache_valid that lets an entry live one tick longer
is_cache_valid_Inclusive(f) ==
    f.exists /\ datetime_now - f.mtime <= ttl_seconds

\* _is_cache_valid(cache_path)
is_cache_valid(f) ==
    f.exists /\ datetime_now - f.mtime < ttl_seconds

\* the file of a key in a day directory; no directory is older than day 0
FileAt(fs, day, key) == IF day \in Days THEN fs[day][key] ELSE NoFile

RemoveFile(fs, day, key) == [fs EXCEPT ![day][key] = NoFile]

NoCall == [active |-> FALSE, opened |-> FALSE, lat |-> 0, lon |-> 0,
           forecast_days |-> 0, day |-> 0, forecast |-> NoForecast]

\* the try block of get_forecast gets a forecast out of the file: json.load
\* and ForecastResult.from_dict both return
Loads(f) == f.parseable /\ ~from_dict_raises(f.data)

\* no invalidate_forecast call: pc is "idle", "called" (the key is computed,
\* the lock not yet taken) or "returned" with the value returned; cached and
\* day are history: whether get_forecast had a hit for the key, and the day,
\* when the call was made
NoInvalidate == [pc |-> "idle", lat |-> 0, lon |-> 0, forecast_days |-> 0,
                 day |-> 0, cached |-> FALSE, returned |-> FALSE]

\* what get_forecast does for a key: the forecast it returns, if any, and
\* the files it leaves; with readable FALSE, open or json.load raises on
\* whatever file the call reads
get_forecast_reading(key, readable) ==
    LET today == Day(datetime_now)
        yesterday == Day(datetime_now) - 1
    IN  IF is_cache_valid(FileAt(files, today, key))
        THEN IF readable /\ Loads(FileAt(files, today, key))
             THEN [hit |-> TRUE,
                   forecast |-> from_dict(FileAt(files, today, key).data),
                   files |-> files]
             ELSE [hit |-> FALSE, forecast |-> NoForecast,
                   files |-> RemoveFile(files, today, key)]
        ELSE IF is_cache_valid(FileAt(files, yesterday, key))
        THEN IF readable /\ Loads(FileAt(files, yesterday, key))
             THEN [hit |-> TRUE,
                   forecast |-> from_dict(FileAt(files, yesterday, key).data),
                   files |-> files]
             ELSE [hit |-> FALSE, forecast |-> NoForecast, files |-> files]
        ELSE [hit |-> FALSE, forecast |-> NoForecast, files |-> files]

\* get_forecast on storage that can be read
get_forecast(key) == get_forecast_reading(key, TRUE)

\* an invalidate_forecast that forgets yesterday's directory
invalidate_forecast_TodayOnly(key) ==
    LET today == Day(datetime_now)
    IN  [deleted |-> FileAt(files, today, key).exists,
         files |-> [d \in Days |-> [k \in Keys |->
                      IF k = key /\ d = today THEN NoFile ELSE files[d][k]]]]

\* what invalidate_forecast does for a key: the files of the key in today's
\* and in yesterday's directory are unlinked; it returns whether there was one
invalidate_forecast(key) ==
    LET today == Day(datetime_now)
        yesterday == Day(datetime_now) - 1
    IN  [deleted |-> \/ FileAt(files, today, key).exists
                     \/ FileAt(files, yesterday, key).exists,
         files |-> [d \in Days |-> [k \in Keys |->
                      IF k = key /\ d \in {today, yesterday}
                      THEN NoFile ELSE files[d][k]]]]

\* a sweep that only drops the directories older than ttl_seconds
SweptFiles_OldDirectories ==
    {<<d, k>> \in Days \X Keys :
        /\ files[d][k].exists
        /\ datetime_now - d * DayLen > ttl_seconds}

\* the files invalidate_old_forecasts removes: all files of a day directory
\* whose midnight is more than ttl_seconds ago, and the files that are not
\* valid of the other directories
SweptFiles ==
    {<<d, k>> \in Days \X Keys :
        /\ files[d][k].exists
        /\ \/ datetime_now - d * DayLen > ttl_seconds
           \/ ~is_cache_valid(files[d][k])}

\* what invalidate_old_forecasts does: the number it returns and the files
\* it leaves
invalidate_old_forecasts ==
    [deleted_count |-> Cardinality(SweptFiles),
     files |-> [d \in Days |-> [k \in Keys |->
                  IF <<d, k>> \in SweptFiles THEN NoFile ELSE files[d][k]]]]

\* get_cache_stats(): what it counts
total_forecasts ==
    Cardinality({<<d, k>> \in Days \X Keys : files[d][k].exists})
valid_forecasts ==
    Cardinality({<<d, k>> \in Days \X Keys : is_cache_valid(files[d][k])})
expired_forecasts ==
    Cardinality({<<d, k>> \in Days \X Keys :
                    files[d][k].exists /\ ~is_cache_valid(files[d][k])})

\* get_cache_stats takes no lock: between its listing of the directories
\* and its stat of each file other threads' calls can run
NoListing == [active |-> FALSE, seen |-> {}]

\* what a get_cache_stats that has listed the files seen can return: it counts
\* a file in total_forecasts and then stats it; when all files are still
\* there it counts each as valid or expired, and when one is gone stat
\* raises, the loop is left and what was counted so far is returned (the
\* files counted before that one are any of those still there)
get_cache_stats_counting(seen) ==
    LET there == {f \in seen : files[f[1]][f[2]].exists}
        Counted(before, stopped) ==
            [total_forecasts |-> Cardinality(before) + (IF stopped THEN 1 ELSE 0),
             valid_forecasts |->
                 Cardinality({f \in before : is_cache_valid(files[f[1]][f[2]])}),
             expired_forecasts |->
                 Cardinality({f \in before : ~is_cache_valid(files[f[1]][f[2]])})]
    IN  IF there = seen
        THEN {Counted(seen, FALSE)}
        ELSE {Counted(before, TRUE) : before \in SUBSET there}

\* ------------------------------------------------------------ cache: Init
\* ForecastCacheManager(cache_dir, ttl_seconds) on an empty directory; a
\* ttl_seconds argument of 0 (or None) gives the default
CacheInit ==
    /\ ttl_seconds \in {IF a = 0 THEN default_ttl_seconds ELSE a : a \in 0..MaxTtl}
    /\ datetime_now = 0
    /\ files = [d \in Days |-> [k \in Keys |-> NoFile]]
    /\ pending = [t \in Threads |-> NoCall]
    /\ calls = 0
    /\ latest = [k \in Keys |-> NoForecast]
    /\ written_at = [k \in Keys |-> 0]
    /\ cache_raised = FALSE
    /\ listing = NoListing
    /\ invalidating = [t \in Threads |-> NoInvalidate]

\* ------------------------------------------------------------ cache: actions
\* time passes; no call is in progress over more than one midnight
CacheTick ==
    /\ datetime_now < (MaxDay + 1) * DayLen - 1
    /\ \A t \in Threads :
          pending[t].active => Day(datetime_now + 1) - pending[t].day <= 1
    /\ datetime_now' = datetime_now + 1
    /\ UNCHANGED <<queue_vars, flow, cache_raised, listing, ttl_seconds, invalidating, files, pending, calls,
                   latest, written_at>>

\* what set_forecast does under the lock to the file of the key in the
\* directory of the day its path names: the file is written and the call
\* returns True; or to_dict or open raises and nothing is written; or
\* json.dump raises after open(path, 'w') has emptied the file
set_forecast(day, key, forecast, outcome) ==
    [returned |-> outcome = "written",
     files |-> CASE outcome = "written" ->
                      [files EXCEPT ![day][key] =
                          WrittenFile(datetime_now, to_dict(forecast))]
                 [] outcome = "dump_failed" ->
                      [files EXCEPT ![day][key] = TruncatedFile(datetime_now)]
                 [] OTHER -> files]

\* without the lock a reader runs whenever it is scheduled
LockFree_Ignored == TRUE

\* self._lock is free: no set_forecast is between open(cache_path, 'w') and
\* the end of json.dump (the other holders of the lock are single steps)
LockFree == \A t \in Threads : ~pending[t].opened

\* set_forecast(lat, lon, forecast_days, forecast) of thread t, up to the
\* lock: the key and the path in today's directory are computed
SetForecastBegin(t, lat, lon, n, forecast) ==
    /\ calls < MaxCalls
    /\ ~pending[t].active
    /\ calls' = calls + 1
    /\ pending' = [pending EXCEPT ![t] =
                     [active |-> TRUE, opened |-> FALSE, lat |-> lat, lon |-> lon,
                      forecast_days |-> n, day |-> Day(datetime_now),
                      forecast |-> forecast]]
    /\ UNCHANGED <<queue_vars, flow, cache_raised, listing, ttl_seconds, invalidating, datetime_now, files, latest,
                   written_at>>

\* set_forecast of thread t under the lock: the file is written and the call
\* returns True; or to_dict or open raises, nothing is written and the call
\* returns False; or json.dump raises after open(path, 'w') has emptied the
\* file, and the call returns False
SetForecastWrite(t, outcome) ==
    LET c == pending[t]
        key == generate_cache_key(c.lat, c.lon, c.forecast_days)
    IN  /\ c.active
        /\ LockFree
        /\ pending' = [pending EXCEPT ![t] = NoCall]
        /\ files' = set_forecast(c.day, key, c.forecast, outcome).files
        /\ IF outcome = "written"
           THEN /\ latest' = [latest EXCEPT ![key] = c.forecast]
                /\ written_at' = [written_at EXCEPT ![key] = datetime_now]
           ELSE UNCHANGED <<latest, written_at>>
        /\ UNCHANGED <<queue_vars, flow, cache_raised, listing, ttl_seconds, invalidating, datetime_now, calls>>

\* set_forecast of thread t takes the lock and open(cache_path, 'w') empties
\* or creates the file
SetForecastOpen(t) ==
    LET c == pending[t]
        key == generate_cache_key(c.lat, c.lon, c.forecast_days)
    IN  /\ c.active
        /\ LockFree
        /\ pending' = [pending EXCEPT ![t].opened = TRUE]
        /\ files' = [files EXCEPT ![c.day][key] = TruncatedFile(datetime_now)]
        /\ UNCHANGED <<queue_vars, flow, cache_raised, listing, ttl_seconds, invalidating,
                       datetime_now, calls, latest, written_at>>

\* json.dump of thread t completes the file, the lock is released and the
\* call returns True
SetForecastDump(t) ==
    LET c == pending[t]
        key == generate_cache_key(c.lat, c.lon, c.forecast_days)
    IN  /\ c.active
        /\ c.opened
        /\ pending' = [pending EXCEPT ![t] = NoCall]
        /\ files' = [files EXCEPT ![c.day][key] =
                        WrittenFile(datetime_now, to_dict(c.forecast))]
        /\ latest' = [latest EXCEPT ![key] = c.forecast]
        /\ written_at' = [written_at EXCEPT ![key] = datetime_now]
        /\ UNCHANGED <<queue_vars, flow, cache_raised, listing, ttl_seconds, invalidating,
                       datetime_now, calls>>

\* get_forecast(lat, lon, forecast_days)
GetForecast(lat, lon, n) ==
    LET got == get_forecast(generate_cache_key(lat, lon, n))
    IN  /\ LockFree
        /\ files' = got.files
        /\ UNCHANGED <<queue_vars, flow, cache_raised, listing, ttl_seconds, invalidating, datetime_now,
                   pending, calls,
                       latest, written_at>>

\* invalidate_forecast(lat, lon, forecast_days)
InvalidateForecast(lat, lon, n) ==
    LET key == generate_cache_key(lat, lon, n)
    IN  /\ LockFree
        /\ files' = invalidate_forecast(key).files
        /\ latest' = [latest EXCEPT ![key] = NoForecast]
        /\ UNCHANGED <<queue_vars, flow, cache_raised, listing, ttl_seconds, invalidating, datetime_now,
                       pending, calls, written_at>>

\* invalidate_forecast(lat, lon, forecast_days) of thread t, up to the lock:
\* the key is computed
InvalidateForecastBegin(t, lat, lon, n) ==
    /\ invalidating[t].pc = "idle"
    /\ invalidating' = [invalidating EXCEPT ![t] =
           [pc |-> "called", lat |-> lat, lon |-> lon, forecast_days |-> n,
            day |-> Day(datetime_now),
            cached |-> get_forecast(generate_cache_key(lat, lon, n)).hit,
            returned |-> FALSE]]
    /\ UNCHANGED <<queue_vars, flow, cache_raised, listing, ttl_seconds,
                   datetime_now, files, pending, calls, latest, written_at>>

\* invalidate_forecast of thread t under the lock: the files of the key are
\* unlinked and the call returns whether there was one
InvalidateForecastRun(t) ==
    LET c == invalidating[t]
        key == generate_cache_key(c.lat, c.lon, c.forecast_days)
    IN  /\ c.pc = "called"
        /\ LockFree
        /\ files' = invalidate_forecast(key).files
        /\ latest' = [latest EXCEPT ![key] = NoForecast]
        /\ invalidating' = [invalidating EXCEPT ![t].pc = "returned",
                               ![t].returned = invalidate_forecast(key).deleted]
        /\ UNCHANGED <<queue_vars, flow, cache_raised, listing, ttl_seconds,
                       datetime_now, pending, calls, written_at>>

\* invalidate_old_forecasts()
InvalidateOldForecasts ==
    /\ LockFree
    /\ files' = invalidate_old_forecasts.files
    /\ latest' = [k \in Keys |->
                    IF \E d \in Days : <<d, k>> \in SweptFiles
                    THEN NoForecast ELSE latest[k]]
    /\ UNCHANGED <<queue_vars, flow, cache_raised, listing, ttl_seconds, invalidating, datetime_now,
                   pending, calls,
                   written_at>>

\* get_cache_stats()
GetCacheStats ==
    UNCHANGED vars

\* set_forecast raises: mkdir of the day directory fails in _get_cache_path,
\* which set_forecast calls before its try block and before the lock
SetForecastRaises ==
    /\ cache_raised' = TRUE
    /\ UNCHANGED <<queue_vars, flow, listing, ttl_seconds, invalidating, datetime_now, files, pending,
                   calls, latest, written_at>>

\* get_forecast raises: mkdir fails in _get_cache_path, or stat fails in
\* _is_cache_valid; both are called outside the try blocks, before any file
\* is opened or unlinked
GetForecastRaises ==
    /\ cache_raised' = TRUE
    /\ UNCHANGED <<queue_vars, flow, listing, ttl_seconds, invalidating, datetime_now, files, pending,
                   calls, latest, written_at>>

\* get_forecast(lat, lon, forecast_days) when the file it opens cannot be read
GetForecastUnreadable(lat, lon, n) ==
    LET got == get_forecast_reading(generate_cache_key(lat, lon, n), FALSE)
    IN  /\ LockFree
        /\ files' = got.files
        /\ UNCHANGED <<queue_vars, flow, cache_raised, listing, ttl_seconds, invalidating, datetime_now,
                       pending, calls, latest, written_at>>

\* the names of fields that a later version of the payload has and this
\* reader does not know
UnknownFields == {"schema_version"}

\* a writer of a later version stores an entry for the key in today's
\* directory: the file set_forecast writes, with fields this reader does not
\* know next to all the fields it knows
NewerVersionWrites(lat, lon, n, forecast) ==
    LET key == generate_cache_key(lat, lon, n)
    IN  /\ calls < MaxCalls
        /\ LockFree
        /\ calls' = calls + 1
        /\ files' = [files EXCEPT ![Day(datetime_now)][key] =
                        WrittenFile(datetime_now,
                                    [to_dict(forecast) EXCEPT
                                        !.extra_keys = UnknownFields])]
        /\ latest' = [latest EXCEPT ![key] = forecast]
        /\ written_at' = [written_at EXCEPT ![key] = datetime_now]
        /\ UNCHANGED <<queue_vars, flow, cache_raised, listing, ttl_seconds, invalidating,
                       datetime_now, pending>>

\* get_cache_stats() next to other threads' calls: the directories are listed
StatsList ==
    /\ ~listing.active
    /\ listing' = [active |-> TRUE,
                   seen |-> {f \in Days \X Keys : files[f[1]][f[2]].exists}]
    /\ UNCHANGED <<queue_vars, flow, cache_raised, ttl_seconds, invalidating, datetime_now, files,
                   pending, calls, latest, written_at>>

\* ... and the files listed are counted; the call returns
StatsCount ==
    /\ listing.active
    /\ listing' = NoListing
    /\ UNCHANGED <<queue_vars, flow, cache_raised, ttl_seconds, invalidating, datetime_now, files,
                   pending, calls, latest, written_at>>

NextCache ==
    \/ CacheTick
    \/ \E t \in Threads, a \in Arguments, forecast \in Forecasts :
          SetForecastBegin(t, a[1], a[2], a[3], forecast)
    \/ \E t \in Threads, outcome \in {"written", "not_opened", "dump_failed"} :
          SetForecastWrite(t, outcome)
    \/ \E a \in Arguments : GetForecast(a[1], a[2], a[3])
    \/ \E a \in Arguments : InvalidateForecast(a[1], a[2], a[3])
    \/ InvalidateOldForecasts
    \/ GetCacheStats

\* ------------------------------------------------------------ request flow
Flows == 1..MaxFlows

\* the locals of a call of graphcast_forecast: the request's coordinates and
\* horizon, the request the queue manager made of it, what the cache and the
\* queue manager returned, and (history) the set_forecast call it made
NoStore == [called |-> FALSE, key |-> "", forecast |-> NoForecast]
NoFlow == [pc |-> "idle", lat |-> 0, lon |-> 0, forecast_days |-> 0,
           request_id |-> 0, cached_forecast |-> NoForecast,
           forecast_result |-> NoForecast, stored |-> NoStore,
           response |-> "none"]

\* the requests ask for one place, with either horizon
FlowArguments == {a \in Arguments : a[1] = 6}

FlowInit == flow = [f \in Flows |-> NoFlow]

\* the outcomes of a set_forecast call: those of the write under the lock,
\* or _get_cache_path raises before the lock
StoreOutcomes == {"written", "not_opened", "dump_failed", "raised"}

\* an endpoint that ignores what the cache returned
CacheHit_Ignored(cached_forecast) == FALSE

\* `if cached_forecast:`
CacheHit(cached_forecast) == cached_forecast # NoForecast

\* an endpoint that stores whatever the queue manager returned
HasResult_Always(forecast_result) == TRUE

\* `if forecast_result is None:` (negated)
HasResult(forecast_result) == forecast_result # NoForecast

\* graphcast_forecast from the cache check to its first suspension or its
\* end, for coordinates that passed validate_coordinates: get_forecast; on a
\* hit the cached forecast is the response; on a miss enqueue_request is
\* called with the inference as task and NORMAL priority, and either raises
\* QueueFull, which the endpoint turns into an HTTP error, or suspends.  With
\* raises, get_forecast raises and the endpoint answers with an HTTP error
GraphcastForecast(f, lat, lon, n, raises) ==
    LET key == generate_cache_key(lat, lon, n)
        got == get_forecast(key)
        call == [flow[f] EXCEPT !.lat = lat, !.lon = lon, !.forecast_days = n]
    IN  /\ flow[f].pc = "idle"
        /\ LockFree
        /\ IF raises
           THEN /\ cache_raised' = TRUE
                /\ flow' = [flow EXCEPT ![f] =
                               [call EXCEPT !.pc = "done", !.response = "error"]]
                /\ UNCHANGED <<queue_vars, files>>
           ELSE /\ files' = got.files
                /\ UNCHANGED cache_raised
                /\ IF CacheHit(got.forecast)
                   THEN /\ flow' = [flow EXCEPT ![f] =
                                      [call EXCEPT !.pc = "done",
                                                   !.cached_forecast = got.forecast,
                                                   !.response = "cached"]]
                        /\ UNCHANGED queue_vars
                   ELSE /\ enqueue_request(NORMAL)
                        /\ flow' = [flow EXCEPT ![f] =
                                      IF QueueFull
                                      THEN [call EXCEPT !.pc = "done",
                                                        !.response = "error"]
                                      ELSE [call EXCEPT !.pc = "waiting",
                                                        !.request_id = Cardinality(Submitted) + 1]]
        /\ UNCHANGED <<ttl_seconds, invalidating, datetime_now, pending, calls, latest,
                       written_at, listing>>

\* enqueue_request returns to the endpoint or raises in it, and the endpoint
\* runs to its end.  An exception becomes an HTTP error.  A result of None
\* is answered with a mock forecast.  Any other result goes through
\* _calculate_agricultural_metrics, which fills in fields the cache model does
\* not carry, is stored with set_forecast under the request's coordinates and
\* horizon, and is the response; if set_forecast raises, the endpoint answers
\* with an HTTP error
GraphcastForecastResumed(f, forecast_result, outcome) ==
    LET c == flow[f]
        r == c.request_id
        key == generate_cache_key(c.lat, c.lon, c.forecast_days)
        today == Day(datetime_now)
        written == set_forecast(today, key, forecast_result, outcome)
    IN  /\ c.pc = "waiting"
        /\ LockFree
        /\ wait_for_done(r)
        /\ IF future[r].state = "result" /\ HasResult(forecast_result)
           THEN /\ flow' = [flow EXCEPT ![f] =
                              [c EXCEPT !.pc = "done",
                                        !.forecast_result = forecast_result,
                                        !.stored = [called |-> TRUE, key |-> key,
                                                    forecast |-> forecast_result],
                                        !.response = IF outcome = "raised"
                                                     THEN "error" ELSE "computed"]]
                /\ files' = IF outcome = "raised" THEN files ELSE written.files
                /\ cache_raised' = (cache_raised \/ outcome = "raised")
                /\ IF outcome = "written"
                   THEN /\ latest' = [latest EXCEPT ![key] = forecast_result]
                        /\ written_at' = [written_at EXCEPT ![key] = datetime_now]
                   ELSE UNCHANGED <<latest, written_at>>
           ELSE /\ flow' = [flow EXCEPT ![f] =
                              [c EXCEPT !.pc = "done",
                                        !.response = IF future[r].state = "result"
                                                     THEN "mock" ELSE "error"]]
                /\ UNCHANGED <<files, cache_raised, latest, written_at>>
        /\ UNCHANGED <<ttl_seconds, invalidating, datetime_now, pending, calls, listing>>

\* wait_for in enqueue_request times out and TimeoutError is raised in the
\* endpoint, which answers with an HTTP error
GraphcastForecastTimedOut(f) ==
    /\ flow[f].pc = "waiting"
    /\ wait_for_timeout(flow[f].request_id)
    /\ flow' = [flow EXCEPT ![f] = [@ EXCEPT !.pc = "done", !.response = "error"]]
    /\ UNCHANGED cache_vars

\* the endpoint under requests, with the queue manager started at startup
NextFlow ==
    \/ Tick
    \/ CacheTick
    \/ Start
    \/ \E f \in Flows, a \in FlowArguments, raises \in BOOLEAN :
          GraphcastForecast(f, a[1], a[2], a[3], raises)
    \/ ProcessQueue
    \/ ExecuteStart
    \/ \E r \in Requests : TaskSucceed(r)
    \/ \E r \in Requests, e \in ErrorClasses : TaskFail(r, e)
    \/ \E f \in Flows, forecast_result \in Forecasts \cup {NoForecast},
          outcome \in StoreOutcomes :
          GraphcastForecastResumed(f, forecast_result, outcome)
    \/ \E f \in Flows : GraphcastForecastTimedOut(f)

\* ------------------------------------------------------------ specifications
\* a queue manager next to a cache that nobody calls
Init ==
    /\ QueueInit
    /\ CacheInit
    /\ FlowInit
    /\ ttl_seconds = default_ttl_seconds

Spec == Init /\ [][Next]_vars

\* a cache next to a queue manager that nobody calls
InitCache ==
    /\ QueueInit
    /\ max_concurrent = MaxConcurrent
    /\ max_queue_size = MaxQueueSize
    /\ CacheInit
    /\ FlowInit

SpecCache == InitCache /\ [][NextCache]_vars

\* the cache with the default ttl on storage whose steps can fail
InitCacheFaults ==
    /\ InitCache
    /\ ttl_seconds = default_ttl_seconds

NextCacheFaults ==
    \/ NextCache
    \/ SetForecastRaises
    \/ GetForecastRaises
    \/ \E a \in Arguments : GetForecastUnreadable(a[1], a[2], a[3])

SpecCacheFaults == InitCacheFaults /\ [][NextCacheFaults]_vars

\* the cache with the default ttl and get_cache_stats calls that other
\* threads' calls overlap
NextCacheStats ==
    \/ NextCache
    \/ StatsList
    \/ StatsCount

SpecCacheStats == InitCacheFaults /\ [][NextCacheStats]_vars

\* the cache with the default ttl next to a writer of a later version
NextCacheNewer ==
    \/ NextCache
    \/ \E a \in Arguments, forecast \in Forecasts :
          NewerVersionWrites(a[1], a[2], a[3], forecast)

SpecCacheNewer == InitCacheFaults /\ [][NextCacheNewer]_vars

\* threads that store and read forecasts and threads that call
\* invalidate_forecast at the same time, one call each, for the arguments of
\* one place
NextCacheInvalidate ==
    \/ CacheTick
    \/ \E t \in Threads, a \in FlowArguments, forecast \in Forecasts :
          SetForecastBegin(t, a[1], a[2], a[3], forecast)
    \/ \E t \in Threads : SetForecastWrite(t, "written")
    \/ \E a \in FlowArguments : GetForecast(a[1], a[2], a[3])
    \/ \E t \in Threads, a \in FlowArguments :
          InvalidateForecastBegin(t, a[1], a[2], a[3])
    \/ \E t \in Threads : InvalidateForecastRun(t)

SpecCacheInvalidate == InitCacheFaults /\ [][NextCacheInvalidate]_vars

\* readers and writers of the cache with the writing of a file in two steps,
\* the lock held in between
NextCacheLock ==
    \/ CacheTick
    \/ \E t \in Threads, a \in Arguments, f \in Forecasts :
          SetForecastBegin(t, a[1], a[2], a[3], f)
    \/ \E t \in Threads : SetForecastOpen(t)
    \/ \E t \in Threads : SetForecastDump(t)
    \/ \E a \in Arguments : GetForecast(a[1], a[2], a[3])

SpecCacheLock == InitCache /\ [][NextCacheLock]_vars

\* the endpoint over a cache with the default ttl and a queue manager with
\* one slot and room for one request
InitFlow ==
    /\ Init
    /\ max_concurrent = 1
    /\ max_queue_size = 1

SpecFlow == InitFlow /\ [][NextFlow]_vars

\* ------------------------------------------------------------ vocabulary
\* the requests enqueue_request accepted
Accepted == {r \in Requests : task_state[r] # "none"}

\* the accepted requests whose task has not started
NotStarted == {r \in Requests : task_state[r] \in {"queued", "popped"}}

\* the requests whose task is executing
Executing == {r \in Requests : task_state[r] = "running"}

\* the requests whose task has finished
Finished == {r \in Requests : task_state[r] \in {"succeeded", "failed"}}

\* no request has left the buffer yet
NothingDispatched == \A r \in Requests : task_state[r] \in {"none", "queued"}

\* r comes before s in the stable sort by (priority, enqueued_at): requests
\* are numbered in enqueue order
Before(r, s) ==
    \/ Lt(request[r], request[s])
    \/ (~Lt(request[s], request[r]) /\ r < s)

\* ------------------------------------------------------------ claims

\* C1: in every reachable state the number of executing tasks is within
\* 0..max_concurrent, both as counted by active_requests and as the tasks
\* that are actually running.
C1_ActiveWithinLimit ==
    /\ 0 <= active_requests
    /\ active_requests <= max_concurrent
    /\ Cardinality(Executing) <= max_concurrent

\* C1 witness: every slot is taken and a further task waits for one
C1_Witness ==
    /\ max_concurrent = MaxConcurrent
    /\ active_requests = max_concurrent
    /\ sem_waiters # <<>>

\* C2: when every accepted request was buffered before any left the buffer,
\* the tasks start in the order of the stable sort by (priority, enqueued_at):
\* the requests started so far are sorted and come before all those waiting.
C2_BatchStartOrder ==
    batch =>
        /\ \A i, j \in 1..Len(start_order) :
              i < j => Before(start_order[i], start_order[j])
        /\ \A i \in 1..Len(start_order) : \A s \in NotStarted :
              Before(start_order[i], s)

\* C3: at the moment a task starts, no other accepted request that has not
\* started has a strictly smaller (priority, enqueued_at).
C3_NoOvertaking ==
    [][\A r \in Requests :
          (task_state[r] # "running" /\ task_state'[r] = "running") =>
              \A s \in NotStarted \ {r} : ~Lt(request[s], request[r])]_vars

\* C4: two buffered requests of one priority class leave the buffer in the
\* order they were enqueued, equal timestamps included: a request is not
\* taken while an earlier request of its class is still buffered.
C4_FifoWithinClass ==
    \A r, s \in Accepted :
        (/\ r < s
         /\ request[r].priority = request[s].priority
         /\ task_state[s] # "queued") => task_state[r] # "queued"

\* C5: an enqueue_request call made while the buffer holds max_queue_size
\* requests is rejected with QueueFull at once: buffer, tasks and
\* active_requests are unchanged and rejected_requests goes up by one; so
\* max_queue_size + 1 calls before any dispatch give max_queue_size accepted
\* requests and one rejection.
C5_RejectWhenFull ==
    /\ [][(Len(queue) = max_queue_size /\ total_requests' = total_requests + 1) =>
            /\ queue' = queue
            /\ task_state' = task_state
            /\ active_requests' = active_requests
            /\ rejected_requests' = rejected_requests + 1
            /\ caller'[total_requests'].state = "QueueFull"]_vars
    /\ []((NothingDispatched /\ total_requests = max_queue_size + 1) =>
            /\ Cardinality(Accepted) = max_queue_size
            /\ rejected_requests = 1)

\* C5 witness: max_queue_size + 1 calls, none dispatched, the last rejected
C5_Witness ==
    /\ NothingDispatched
    /\ total_requests = max_queue_size + 1
    /\ Len(queue) = max_queue_size
    /\ caller[total_requests].state = "QueueFull"

\* C6: while every concurrency slot is taken, so that each accepted request
\* whose task has not started is being held for a slot, those requests never
\* number more than max_queue_size.
C6_BackpressureBound ==
    sem_value = 0 => Cardinality(NotStarted) <= max_queue_size

\* C7: a caller that got a value back got it after its own task succeeded,
\* and the value is the one that task returned.
C7_ReturnsOwnResult ==
    \A r \in Requests :
        caller[r].state = "returned" =>
            /\ task_state[r] = "succeeded"
            /\ caller[r].value = TaskValue(r)

\* C7 witness: two callers have their values back
C7_Witness ==
    \E r, s \in Requests :
        r # s /\ caller[r].state = "returned" /\ caller[s].state = "returned"

\* C8: when the deadline passes with the future still pending the caller gets
\* TimeoutError and keeps it; the future stays cancelled when the task
\* finishes later, and no caller is handed that task's result or error.
C8_TimeoutDiscardsResult ==
    /\ [](\A r \in Requests :
            /\ (future[r].state = "cancelled") <=> (caller[r].state = "TimeoutError")
            /\ caller[r].state = "TimeoutError" =>
                  \A s \in Requests :
                      caller[s].state \in {"returned", "raised"} =>
                          caller[s].value \notin {TaskValue(r), TaskError(r)})
    /\ [][\A r \in Requests :
            caller[r].state = "TimeoutError" => caller'[r] = caller[r]]_vars

\* C8 witness: a task finished after its caller had timed out, while another
\* caller was still to be served
C8_Witness ==
    \E r, s \in Requests :
        /\ caller[r].state = "TimeoutError"
        /\ r \in Finished
        /\ caller[s].state \in {"returned", "raised"}

\* C9: the free slots and the executing tasks always add up to
\* max_concurrent, and active_requests counts exactly the executing tasks:
\* each finished task gave its slot back once, whatever its outcome.
C9_SlotsConserved ==
    /\ sem_value >= 0
    /\ sem_value + active_requests = max_concurrent
    /\ active_requests = Cardinality(Executing)

\* C9 witness: a task that outlived its caller's timeout and a task that
\* failed have both finished, and every slot is free again
C9_Witness ==
    /\ sem_value = max_concurrent
    /\ \E r \in Finished : caller[r].state = "TimeoutError"
    /\ \E r \in Requests : task_state[r] = "failed"

\* C10: a future is written at most once, with a result or with an exception,
\* and never when it is already done; the future of a finished task whose
\* caller has not timed out was written exactly once, with the task's outcome.
C10_SingleWrite ==
    \A r \in Requests :
        /\ writes[r] <= 1
        /\ (writes[r] = 1) <=> (future[r].state \in {"result", "exception"})
        /\ (r \in Finished /\ caller[r].state # "TimeoutError") =>
              /\ writes[r] = 1
              /\ (task_state[r] = "succeeded") <=> (future[r].state = "result")

\* C10 witness: one future was written once, and a task that finished after
\* its caller's timeout wrote nothing
C10_Witness ==
    /\ \E r \in Finished : writes[r] = 1
    /\ \E r \in Finished : caller[r].state = "TimeoutError" /\ writes[r] = 0

\* C11: when the task of a request raises, failed_requests goes up by one and
\* rejected_requests stays; the slot is given back and the dispatch loop is
\* left as it is; the error is set on the future if the caller still waits,
\* and a caller that has an error raised to it got the error of its own task.
C11_TaskErrorReachesCaller ==
    /\ [][\A r \in Requests :
            (task_state[r] = "running" /\ task_state'[r] = "failed") =>
                /\ failed_requests' = failed_requests + 1
                /\ rejected_requests' = rejected_requests
                /\ sem_value' = sem_value + 1
                /\ active_requests' = active_requests - 1
                /\ running' = running
                /\ worker_loops' = worker_loops
                /\ future[r].state = "pending" =>
                      future'[r] = [state |-> "exception", value |-> TaskError(r)]]_vars
    /\ [](\A r \in Requests :
            /\ caller[r].state = "raised" =>
                  /\ task_state[r] = "failed"
                  /\ caller[r].value = TaskError(r)
            /\ (task_state[r] = "failed" /\ caller[r].state # "TimeoutError") =>
                  caller[r].state \in {"waiting", "raised"})

\* C11 witness: a caller has the error of its task, the slot is free again
\* and the queue still runs
C11_Witness ==
    \E r \in Requests :
        /\ caller[r].state = "raised"
        /\ caller[r].value = TaskError(r)
        /\ failed_requests = 1
        /\ rejected_requests = 0
        /\ sem_value = max_concurrent
        /\ running

\* C12: the counters keep task failures and queue failures apart:
\* timeout_requests moves only when a caller's deadline passes,
\* rejected_requests only when a call is rejected, failed_requests only when
\* a task raises, whatever the class of the error the task raises.
C12_FailureKindsApart ==
    [][/\ timeout_requests' # timeout_requests =>
              \E r \in Requests :
                  /\ caller[r].state = "waiting"
                  /\ future[r].state = "pending"
                  /\ caller'[r].state = "TimeoutError"
       /\ rejected_requests' # rejected_requests =>
              \E r \in Requests :
                  caller[r].state = "none" /\ caller'[r].state = "QueueFull"
       /\ failed_requests' # failed_requests =>
              \E r \in Requests :
                  /\ task_state[r] = "running"
                  /\ task_state'[r] = "failed"
                  /\ caller' = caller]_vars

\* C13: over every sequence of start() and stop() calls there is at most one
\* dispatch loop, there is one exactly when the last call was start(), and
\* no call has raised.
C13_LifecycleIdempotent ==
    /\ worker_loops <= 1
    /\ (worker_loops = 1) <=> (last_call = "start")
    /\ ~call_raised

\* C13 witness: a manager that was started and then stopped, with the
\* request its loop had taken still waiting for a slot
C13_Witness ==
    /\ last_call = "stop"
    /\ worker_task = "cancelled"
    /\ worker_loops = 0
    /\ sem_waiters # <<>>

\* C14: a stop() of a running manager releases the caller of every request
\* that is still buffered, with an error that is not TimeoutError: after the
\* call none of them is suspended.
C14_StopReleasesBuffered ==
    [][(running /\ ~running') =>
          \A r \in Requests :
              (task_state[r] = "queued" /\ caller[r].state = "waiting") =>
                  caller'[r].state \notin {"waiting", "TimeoutError"}]_vars

C16_RoundTrip ==
    \A a \in Arguments :
        LET key == generate_cache_key(a[1], a[2], a[3])
        IN  (/\ latest[key] # NoForecast
             /\ datetime_now - written_at[key] < ttl_seconds)
            => /\ get_forecast(key).hit
               /\ get_forecast(key).forecast = latest[key]

\* C17: get_forecast returns an entry only while now - written_at is below
\* ttl_seconds; once every entry of the key has reached that age, get_forecast
\* does exactly what it does when the key has no entry
C17_ExpiryAtTtl ==
    \A a \in Arguments :
        LET key == generate_cache_key(a[1], a[2], a[3])
            got == get_forecast(key)
            entries == {files[d][key] : d \in Days}
        IN  /\ got.hit =>
                  \E f \in entries :
                      /\ f.parseable
                      /\ from_dict(f.data) = got.forecast
                      /\ datetime_now - f.mtime < ttl_seconds
            /\ (\A f \in entries :
                    f.exists => datetime_now - f.mtime >= ttl_seconds)
               => got = [hit |-> FALSE, forecast |-> NoForecast,
                         files |-> files]

\* an entry that was stored sits expired in today's directory, and
\* get_forecast returns nothing for its key
C17_Witness ==
    \E a \in Arguments :
        LET key == generate_cache_key(a[1], a[2], a[3])
            f == files[Day(datetime_now)][key]
        IN  /\ f.parseable
            /\ from_dict(f.data) = latest[key]
            /\ datetime_now - f.mtime = ttl_seconds
            /\ ~get_forecast(key).hit

\* two coordinates, in thousandths, round to the same two-decimal value
RoundsAlike(x, y) ==
    /\ Round2(x).hundredths = Round2(y).hundredths
    /\ Round2(x).hundredths # 0 => Round2(x).negative = Round2(y).negative

\* C18: two requests whose coordinates round to the same two-decimal values
\* and whose horizons are equal address one cache entry: what get_forecast
\* returns for the one it returns for the other
C18_CoarseKey ==
    \A a, b \in Arguments :
        (/\ RoundsAlike(a[1], b[1])
         /\ RoundsAlike(a[2], b[2])
         /\ a[3] = b[3])
        => LET got_a == get_forecast(generate_cache_key(a[1], a[2], a[3]))
               got_b == get_forecast(generate_cache_key(b[1], b[2], b[3]))
           IN  /\ got_a.hit = got_b.hit
               /\ got_a.forecast = got_b.forecast

\* two requests differ in horizon or in rounded coordinates
AddressApart(a, b) ==
    \/ ~RoundsAlike(a[1], b[1])
    \/ ~RoundsAlike(a[2], b[2])
    \/ a[3] # b[3]

\* the step leaves the files of every request apart from a as they are
OthersKept(a) ==
    \A b \in Arguments :
        AddressApart(a, b) =>
            \A d \in Days :
                files'[d][generate_cache_key(b[1], b[2], b[3])]
                    = files[d][generate_cache_key(b[1], b[2], b[3])]

C20_SelfHeal ==
    \A a \in Arguments :
        LET key == generate_cache_key(a[1], a[2], a[3])
            today == Day(datetime_now)
            yesterday == Day(datetime_now) - 1
            got == get_forecast(key)
        IN  /\ (/\ is_cache_valid(FileAt(files, today, key))
                /\ ~FileAt(files, today, key).parseable)
               => /\ ~got.hit
                  /\ ~got.files[today][key].exists
            /\ (/\ ~is_cache_valid(FileAt(files, today, key))
                /\ is_cache_valid(FileAt(files, yesterday, key))
                /\ ~FileAt(files, yesterday, key).parseable)
               => /\ ~got.hit
                  /\ ~got.files[yesterday][key].exists

\* C21: get_forecast looks in today's directory and then in yesterday's and
\* returns the first entry that is not expired and parses: today's when it is
\* one, and yesterday's when today's is missing, expired or does not parse
C21_FirstValidHit ==
    \A a \in Arguments :
        LET key == generate_cache_key(a[1], a[2], a[3])
            ft == FileAt(files, Day(datetime_now), key)
            fy == FileAt(files, Day(datetime_now) - 1, key)
            got == get_forecast(key)
        IN  /\ (is_cache_valid(ft) /\ ft.parseable)
               => got.hit /\ got.forecast = from_dict(ft.data)
            /\ (/\ ~(is_cache_valid(ft) /\ ft.parseable)
                /\ is_cache_valid(fy) /\ fy.parseable)
               => got.hit /\ got.forecast = from_dict(fy.data)

\* C22: a storage step that fails is absorbed: no call of set_forecast or
\* get_forecast raises to its caller, and a get_forecast whose read fails
\* returns nothing
C22_FailuresAbsorbed ==
    /\ ~cache_raised
    /\ \A a \in Arguments :
          ~get_forecast_reading(generate_cache_key(a[1], a[2], a[3]), FALSE).hit

\* the key has no file in the directories of the day of t and of the day before
NoEntry(fs, t, key) ==
    /\ ~FileAt(fs, Day(t), key).exists
    /\ ~FileAt(fs, Day(t) - 1, key).exists

C24_SweepKeepsValid ==
    \A d \in Days, k \in Keys :
        is_cache_valid(files[d][k])
        => invalidate_old_forecasts.files[d][k] = files[d][k]

C26_StatsConsistent ==
    /\ [](/\ total_forecasts
               = Cardinality({f \in Days \X Keys : files[f[1]][f[2]].exists})
          /\ total_forecasts = valid_forecasts + expired_forecasts
          /\ valid_forecasts
               = Cardinality({f \in Days \X Keys :
                                 /\ files[f[1]][f[2]].exists
                                 /\ datetime_now - files[f[1]][f[2]].mtime
                                        < ttl_seconds})
          /\ listing.active =>
                \A stats \in get_cache_stats_counting(listing.seen) :
                    stats.total_forecasts
                        = stats.valid_forecasts + stats.expired_forecasts)
    /\ [][(GetCacheStats \/ StatsList \/ StatsCount)
            => UNCHANGED <<ttl_seconds, invalidating, datetime_now, files, pending>>]_vars


FlowKey(c) == generate_cache_key(c.lat, c.lon, c.forecast_days)

\* C28: the endpoint asks the cache first and hands the inference to
\* enqueue_request only on a miss.  A call that arrives while get_forecast has
\* a valid entry for its key leaves the queue manager as it was (no request
\* counted, buffered or given a slot); every call of enqueue_request is made
\* by a call of the endpoint whose key missed at that moment; and every
\* request the queue manager ever accepted belongs to a call that got nothing
\* from the cache, while a call answered from the cache has no request.
C28_HitNeverEnqueues ==
    /\ [][flow' # flow =>
            \A f \in Flows :
                (flow[f].pc = "idle" /\ flow'[f].pc # "idle") =>
                    IF get_forecast(FlowKey(flow'[f])).hit
                    THEN /\ queue_vars' = queue_vars
                         /\ flow'[f].request_id = 0
                         /\ flow'[f].pc = "done"
                    ELSE flow'[f].response # "cached"]_vars
    /\ [][total_requests' # total_requests =>
            \E f \in Flows :
                /\ flow[f].pc = "idle"
                /\ flow'[f].pc # "idle"
                /\ ~get_forecast(FlowKey(flow'[f])).hit]_vars
    /\ [](\A r \in Requests :
            task_state[r] # "none" =>
                \E f \in Flows : /\ flow[f].request_id = r
                                 /\ flow[f].cached_forecast = NoForecast
                                 /\ flow[f].response # "cached")
    /\ [](\A f \in Flows :
            flow[f].response = "cached" =>
                /\ flow[f].request_id = 0
                /\ flow[f].cached_forecast \in Forecasts)

\* one call missed, had its forecast computed in the only slot and stored;
\* a later call for the same key was answered with that forecast from the
\* cache, and the queue manager has seen one request
C28_Witness ==
    \E f, g \in Flows :
        /\ flow[f].response = "computed"
        /\ flow[g].response = "cached"
        /\ FlowKey(flow[f]) = FlowKey(flow[g])
        /\ flow[g].cached_forecast = flow[f].forecast_result
        /\ flow[g].request_id = 0
        /\ total_requests = 1
        /\ active_requests = 0

C30_NoStartAfterStop ==
    [][(last_call = "stop" /\ last_call' = "stop") =>
          /\ start_order' = start_order
          /\ \A r \in Requests :
               task_state'[r] = "running" => task_state[r] = "running"]_vars


\* C31: an enqueue_request call made while the queue manager is not running
\* (before start() or after stop()) is refused with a queue-level failure: the
\* request is not put into the buffer and its caller is not left waiting.
C31_RefusedWhenStopped ==
    [][(~running /\ total_requests' = total_requests + 1) =>
          /\ queue' = queue
          /\ caller'[total_requests'].state \notin {"none", "waiting"}]_vars


\* ------------------------------------------------------------ liveness
\* the queue manager with one slot while nobody calls stop(): the worker and
\* the tasks it creates are scheduled by the event loop again and again, a
\* task that runs ends (the claim's premise), and a caller whose future is
\* done is resumed
InitLive ==
    /\ Init
    /\ max_concurrent = 1
    /\ max_queue_size = 2

NextLive ==
    \/ Tick
    \/ Start
    \/ \E p \in HIGH..MaxPriority : EnqueueRequest(p)
    \/ ProcessQueue
    \/ ExecuteStart
    \/ \E r \in Requests : TaskSucceed(r)
    \/ \E r \in Requests, e \in ErrorClasses : TaskFail(r, e)
    \/ \E r \in Requests : CallerResume(r)
    \/ \E r \in Requests : CallerTimeout(r)

Fairness ==
    /\ WF_vars(ProcessQueue)
    /\ WF_vars(ExecuteStart)
    /\ \A r \in Requests :
         WF_vars(TaskSucceed(r) \/ \E e \in ErrorClasses : TaskFail(r, e))
    /\ \A r \in Requests : WF_vars(CallerResume(r))

SpecLive == InitLive /\ [][NextLive]_vars /\ Fairness

\* the same manager with reset_metrics() called at any moment
NextMetrics ==
    \/ NextLive
    \/ ResetMetrics

SpecMetrics == InitLive /\ [][NextMetrics]_vars

\* C32: while the queue manager is started and tasks end, every accepted
\* request's task is started, and every caller that waits in enqueue_request
\* gets the task's result, the task's error or TimeoutError; what a caller
\* got never changes afterwards.
C32_EveryRequestServed ==
    /\ \A r \in Requests :
         (running /\ task_state[r] \in {"queued", "popped"})
            ~> (task_state[r] \in {"running", "succeeded", "failed"})
    /\ \A r \in Requests :
         (running /\ caller[r].state = "waiting")
            ~> (caller[r].state \in {"returned", "raised", "TimeoutError"})
    /\ [][\A r \in Requests :
            caller[r].state \in {"returned", "raised", "TimeoutError"}
               => caller'[r] = caller[r]]_vars


\* with the queue manager running, three requests were accepted; every task
\* was started and has ended, one caller got the result, one the task's
\* error, and one TimeoutError, its task having run all the same
C32_Witness ==
    /\ running
    /\ \A r \in Requests : task_state[r] \in {"succeeded", "failed"}
    /\ \E r \in Requests : caller[r].state = "returned"
    /\ \E r \in Requests : caller[r].state = "raised"
    /\ \E r \in Requests : caller[r].state = "TimeoutError"


\* C33: no request's task is invoked twice.  In the order in which tasks were
\* started no request occurs twice, and a task begins only for a request that
\* was taken from the buffer and has not begun before, whatever timeouts,
\* stop() and start() calls come in between.
C33_NoDoubleRun ==
    /\ [](\A i, j \in 1..Len(start_order) :
            start_order[i] = start_order[j] => i = j)
    /\ [][\A r \in Requests :
            (task_state'[r] = "running" /\ task_state[r] # "running") =>
                /\ task_state[r] = "popped"
                /\ Len(start_order') = Len(start_order) + 1
                /\ \A i \in 1..Len(start_order) : start_order[i] # r]_vars

\* every request's task was started once, also that of a request whose
\* caller had timed out, and the worker has been stopped
C33_Witness ==
    /\ Len(start_order) = MaxRequests
    /\ worker_task = "cancelled"
    /\ last_call = "stop"
    /\ \E r \in Requests :
         /\ caller[r].state = "TimeoutError"
         /\ task_state[r] = "succeeded"

\* C34: the wait time recorded for a request is the interval from its enqueue
\* to the moment its task begins, the time spent waiting for a concurrency
\* slot included: when the task of a request begins, the wait_time_ms that
\* _execute_request recorded for it is the time from queued_at to now
C34_WaitUntilTaskBegins ==
    [][\A r \in Requests :
          (task_state'[r] = "running" /\ task_state[r] # "running") =>
              wait_time_ms[r] = (now - request[r].queued_at) * 1000]_vars

\* C35: a set_forecast that fails part-way never leaves a present-but-corrupt
\* entry: whichever way a set_forecast call that is under way fails, it
\* returns False and every file of its key is afterwards what it was before
\* the call or is gone, so that a later get_forecast finds the payload that
\* was cached before or nothing, and has no half-written entry to delete
C35_FailedSetLeavesNoCorruptEntry ==
    \A t \in Threads, outcome \in {"not_opened", "dump_failed"} :
        LET c == pending[t]
            key == generate_cache_key(c.lat, c.lon, c.forecast_days)
            after == set_forecast(c.day, key, c.forecast, outcome)
        IN  c.active =>
                /\ ~after.returned
                /\ \A d \in Days :
                      \/ after.files[d][key] = files[d][key]
                      \/ ~after.files[d][key].exists

\* C36: an entry written less than ttl_seconds ago that was not invalidated,
\* swept or overwritten is returned by get_forecast whatever the number of
\* midnights since it was written: when the only file of a key parses, lies
\* in the directory of the day it was written and is younger than
\* ttl_seconds, get_forecast returns its payload
C36_ValidAcrossDays ==
    \A a \in Arguments :
        LET key == generate_cache_key(a[1], a[2], a[3])
        IN  \A d \in Days :
                (/\ files[d][key].parseable
                 /\ Day(files[d][key].mtime) = d
                 /\ datetime_now - files[d][key].mtime < ttl_seconds
                 /\ \A e \in Days \ {d} : ~files[e][key].exists)
                => /\ get_forecast(key).hit
                   /\ get_forecast(key).forecast = from_dict(files[d][key].data)

\* C37: forward compatibility: a stored entry that is not expired and whose
\* payload has fields unknown to the reader next to all known fields is read
\* by get_forecast with the unknown fields ignored: get_forecast returns the
\* forecast of the known fields and leaves the file where it is
C37_UnknownFieldsIgnored ==
    \A a \in Arguments :
        LET key == generate_cache_key(a[1], a[2], a[3])
            ft == FileAt(files, Day(datetime_now), key)
            fy == FileAt(files, Day(datetime_now) - 1, key)
            got == get_forecast(key)
        IN  /\ (/\ is_cache_valid(ft) /\ ft.parseable
                /\ ft.data.extra_keys # {})
               => /\ got.hit
                  /\ got.forecast = from_dict(ft.data)
                  /\ got.files = files
            /\ (/\ ~is_cache_valid(ft)
                /\ is_cache_valid(fy) /\ fy.parseable
                /\ fy.data.extra_keys # {})
               => /\ got.hit
                  /\ got.forecast = from_dict(fy.data)
                  /\ got.files = files

\* the key of an invalidate_forecast call
InvalidateKey(c) == generate_cache_key(c.lat, c.lon, c.forecast_days)

C39_CountersConsistent ==
    /\ completed_requests + failed_requests + rejected_requests <= total_requests
    /\ completed_requests * 100 <= total_requests * 100

\* the terminal outcomes the counters hold for request r: rejected, timed
\* out, completed and failed
TerminalOutcomes(r) ==
    (IF caller[r].state = "QueueFull" THEN 1 ELSE 0)
    + (IF caller[r].state = "TimeoutError" THEN 1 ELSE 0)
    + (IF task_state[r] = "succeeded" THEN 1 ELSE 0)
    + (IF task_state[r] = "failed" THEN 1 ELSE 0)

\* C40: each submitted request is counted under exactly one terminal outcome:
\* the four counters count the requests that were rejected, that timed out
\* and whose task returned or raised, and a request whose enqueue_request
\* call has returned and whose task, if it has one, has finished is among the
\* requests of exactly one counter; a request whose caller timed out is not
\* counted as completed or failed as well
C40_OneTerminalOutcome ==
    /\ rejected_requests =
          Cardinality({r \in Requests : caller[r].state = "QueueFull"})
    /\ timeout_requests =
          Cardinality({r \in Requests : caller[r].state = "TimeoutError"})
    /\ completed_requests =
          Cardinality({r \in Requests : task_state[r] = "succeeded"})
    /\ failed_requests =
          Cardinality({r \in Requests : task_state[r] = "failed"})
    /\ \A r \in Requests :
          (/\ caller[r].state \notin {"none", "waiting"}
           /\ task_state[r] \in {"none", "succeeded", "failed"})
          => TerminalOutcomes(r) = 1

====
